---- MODULE Spec2Model ----
(***************************************************************************)
(* Student manager (src/src/main.c): the ID counter file, the per-student  *)
(* record files and the temp-file replace protocol used by update_next_id, *)
(* edit_student and recompute_average_grade.                               *)
(*                                                                         *)
(* A file is a record [ex |-> does the path exist, txt |-> its content].   *)
(* The counter file's content is one string; a record file's content is    *)
(* the sequence of its lines, each a string ending in "\n" (what fgets     *)
(* returns).  Grades are fixed-point numbers counted in hundredths.        *)
(***************************************************************************)
EXTENDS Integers, Sequences, FiniteSets, TLC

\* ---------------------------------------------------------------- bounds
MaxId == 3          \* add_student is not started once the counter passes it
MaxCalls == 2       \* calls made by the single caller of SpecSeq
MaxRecCalls == 1    \* calls made by the single caller of SpecRec
MaxFaults == 1      \* failing system calls (fopen/remove/rename/mkdir) per run

Threads == {1, 2}
Ids == 1..MaxId

\* ------------------------------------------------------- text primitives
Ch(s, i) == SubSeq(s, i, i)

Digits == <<"0", "1", "2", "3", "4", "5", "6", "7", "8", "9">>

IsDigit(c) == \E d \in 1..10 : Digits[d] = c

DigitVal(c) == (CHOOSE d \in 1..10 : Digits[d] = c) - 1

\* isspace(), as scanf's white-space directives use it
IsSpace(c) == c \in {" ", "\t", "\n"}

\* strstr(line, prefix) == line
IsPrefix(p, s) == Len(s) >= Len(p) /\ SubSeq(s, 1, Len(p)) = p

RECURSIVE SkipWs(_, _)
SkipWs(s, i) ==
    IF i <= Len(s) /\ IsSpace(Ch(s, i)) THEN SkipWs(s, i + 1) ELSE i

RECURSIVE DigitsEnd(_, _)
DigitsEnd(s, i) ==
    IF i <= Len(s) /\ IsDigit(Ch(s, i)) THEN DigitsEnd(s, i + 1) ELSE i

\* value of the digit run s[i..j-1]
RECURSIVE DigitsVal(_, _, _)
DigitsVal(s, i, j) ==
    IF j <= i THEN 0 ELSE DigitsVal(s, i, j - 1) * 10 + DigitVal(Ch(s, j - 1))

\* the "%d" conversion at position i: skip white space, optional sign, digits
ScanInt(s, i) ==
    LET k    == SkipWs(s, i)
        sgn  == k <= Len(s) /\ Ch(s, k) \in {"-", "+"}
        d0   == IF sgn THEN k + 1 ELSE k
        e    == DigitsEnd(s, d0)
        mag  == DigitsVal(s, d0, e)
    IN  [ok   |-> e > d0,
         val  |-> IF sgn /\ Ch(s, k) = "-" THEN 0 - mag ELSE mag,
         next |-> IF e > d0 THEN e ELSE k]

\* the "%f" conversion at position i, in hundredths: skip white space,
\* optional sign, digits, optional "." and digits (two decimals are kept)
ScanFloat(s, i) ==
    LET k    == SkipWs(s, i)
        sgn  == k <= Len(s) /\ Ch(s, k) \in {"-", "+"}
        d0   == IF sgn THEN k + 1 ELSE k
        e    == DigitsEnd(s, d0)
        dot  == e <= Len(s) /\ Ch(s, e) = "."
        f0   == IF dot THEN e + 1 ELSE e
        fe   == IF dot THEN DigitsEnd(s, f0) ELSE e
        ok   == (e > d0) \/ (fe > f0)
        d1   == IF fe > f0 THEN DigitVal(Ch(s, f0)) ELSE 0
        d2   == IF fe > f0 + 1 THEN DigitVal(Ch(s, f0 + 1)) ELSE 0
        mag  == DigitsVal(s, d0, e) * 100 + d1 * 10 + d2
    IN  [ok   |-> ok,
         val  |-> IF sgn /\ Ch(s, k) = "-" THEN 0 - mag ELSE mag,
         next |-> IF ok THEN fe ELSE k]

\* mutant: only the last digit is printed
FmtIntOneDigit(n) == Digits[(n % 10) + 1]

\* printf("%d")
RECURSIVE FmtInt(_)
FmtInt(n) ==
    IF n < 0 THEN "-" \o FmtInt(0 - n)
    ELSE IF n < 10 THEN Digits[n + 1]
    ELSE FmtInt(n \div 10) \o Digits[(n % 10) + 1]

\* printf("%.2f") of a value given in hundredths
FmtGrade(h) ==
    LET a == IF h < 0 THEN 0 - h ELSE h
    IN  (IF h < 0 THEN "-" ELSE "") \o FmtInt(a \div 100) \o "."
        \o Digits[((a \div 10) % 10) + 1] \o Digits[(a % 10) + 1]

\* ------------------------------------------------------ files on disk
NoCounter == [ex |-> FALSE, txt |-> ""]       \* absent counter / .tmp path
NoFile == [ex |-> FALSE, txt |-> <<>>]        \* absent record / temp path

CounterFile(s) == [ex |-> TRUE, txt |-> s]
RecordFile(ls) == [ex |-> TRUE, txt |-> ls]

\* ------------------------------------------------- load_student_data
\* mutant: the id < 1 test is missing
LoadParseUnclamped(txt) ==
    LET r == ScanInt(txt, 1)
    IN  IF r.ok THEN r.val ELSE 1

\* fscanf(file, "%d", &id) != 1 || id < 1  ->  id = 1
LoadParse(txt) ==
    LET r == ScanInt(txt, 1)
    IN  IF r.ok /\ r.val >= 1 THEN r.val ELSE 1

\* fprintf(file, "%d\n", new_id) in update_next_id
CounterText(n) == FmtInt(n) \o "\n"

\* ------------------------------------------------------ edit_student
\* the key each menu choice edits
FieldKey(choice) ==
    CASE choice = 1  -> "NAME"
      [] choice = 2  -> "GRADE"
      [] choice = 3  -> "PHONE_NUMBER"
      [] choice = 4  -> "FATHER_NAME"
      [] choice = 5  -> "MOTHER_NAME"
      [] choice = 6  -> "DOB"
      [] choice = 7  -> "FAMILY_NAME"
      [] choice = 8  -> "SUBJECT1_GRADE"
      [] choice = 9  -> "SUBJECT2_GRADE"
      [] choice = 10 -> "SUBJECT3_GRADE"
      [] choice = 11 -> "SUBJECT4_GRADE"

FieldPrefix(choice) == FieldKey(choice) \o " = "

IsSubjectChoice(choice) == choice \in {8, 9, 10, 11}

\* sscanf(new_value, "%d %c", &int_value, &trailing) == 1: an integer and
\* nothing but white space after it
IntInputOk(v) ==
    LET r == ScanInt(v, 1)
    IN  r.ok /\ SkipWs(v, r.next) > Len(v)

\* sscanf(new_value, "%f %c", &float_value, &trailing) == 1
FloatInputOk(v) ==
    LET r == ScanFloat(v, 1)
    IN  r.ok /\ SkipWs(v, r.next) > Len(v)

\* SECTION 4: input validation
ValidEdit(choice, v) ==
    IF choice = 2 THEN IntInputOk(v) /\ ScanInt(v, 1).val >= 0
    ELSE IF IsSubjectChoice(choice) THEN FloatInputOk(v)
    ELSE TRUE

\* the value as the matching branch prints it: %s, %d or %.2f
FieldValue(choice, v) ==
    IF choice = 2 THEN FmtInt(ScanInt(v, 1).val)
    ELSE IF IsSubjectChoice(choice) THEN FmtGrade(ScanFloat(v, 1).val)
    ELSE v

NewLine(choice, v) == FieldPrefix(choice) \o FieldValue(choice, v) \o "\n"

\* the branch test of the copy loop: strstr(line, "KEY = ") == line
LineMatches(choice, line) == IsPrefix(FieldPrefix(choice), line)

\* mutant: strstr(line, "KEY = ") != NULL, the key anywhere in the line
RewriteLinesAnywhere(lines, choice, v) ==
    LET p == FieldPrefix(choice)
        found(l) == \E i \in 1..(Len(l) - Len(p) + 1) :
                        SubSeq(l, i, i + Len(p) - 1) = p
    IN  [i \in DOMAIN lines |->
            IF found(lines[i]) THEN NewLine(choice, v) ELSE lines[i]]

\* SECTION 6: every line the test matches is replaced, the rest copied
RewriteLines(lines, choice, v) ==
    [i \in DOMAIN lines |->
        IF LineMatches(choice, lines[i]) THEN NewLine(choice, v) ELSE lines[i]]

\* mutant: the flag `updated` set whatever the loop found
UpdatedAlways(lines, choice) == TRUE

\* the flag `updated` after the loop
Updated(lines, choice) == \E i \in DOMAIN lines : LineMatches(choice, lines[i])

\* -------------------------------------------- recompute_average_grade
SubjectKey(n) == "SUBJECT" \o Digits[n + 1] \o "_GRADE"

\* sscanf(line, "SUBJECTn_GRADE = %f", &g) == 1: the key literally, white
\* space (possibly none), "=", white space, then the %f conversion
ScanSubject(line, n) ==
    LET key == SubjectKey(n)
        a   == SkipWs(line, Len(key) + 1)
        eq  == IsPrefix(key, line) /\ a <= Len(line) /\ Ch(line, a) = "="
        r   == ScanFloat(line, a + 1)
    IN  [ok |-> eq /\ r.ok, val |-> IF eq /\ r.ok THEN r.val ELSE 0]

\* g and have after the scan loop: the last line that converts wins
RECURSIVE GradeOf(_, _, _)
GradeOf(lines, n, i) ==
    IF i = 0 THEN [have |-> FALSE, val |-> 0]
    ELSE LET r == ScanSubject(lines[i], n)
         IN  IF r.ok THEN [have |-> TRUE, val |-> r.val]
             ELSE GradeOf(lines, n, i - 1)

Grade(lines, n) == GradeOf(lines, n, Len(lines))

\* mutant: one grade found is taken for all four
HaveAny(lines) == \E n \in 1..4 : Grade(lines, n).have

HaveAll(lines) == \A n \in 1..4 : Grade(lines, n).have

\* mutant: the fourth grade left out of the sum
GradeSumThree(lines) ==
    Grade(lines, 1).val + Grade(lines, 2).val + Grade(lines, 3).val

GradeSum(lines) ==
    Grade(lines, 1).val + Grade(lines, 2).val
        + Grade(lines, 3).val + Grade(lines, 4).val

\* "%.2f" of sum / 4.0f, in hundredths.  A quotient that ends in exactly
\* half a hundredth is not representable in binary floating point: the
\* printed value is either neighbour, depending on the rounding of the sum.
MeanChoices(sum) ==
    LET a == IF sum < 0 THEN 0 - sum ELSE sum
        q == a \div 4
        r == a % 4
        m == IF r < 2 THEN {q} ELSE IF r = 2 THEN {q, q + 1} ELSE {q + 1}
    IN  {IF sum < 0 THEN 0 - x ELSE x : x \in m}

AveragePrefix == "AVERAGE_GRADE = "

AverageLine(avg) == AveragePrefix \o FmtGrade(avg) \o "\n"

\* strncmp(line, "AVERAGE_GRADE = ", 16) == 0
IsAverageLine(line) == IsPrefix(AveragePrefix, line)

\* the second loop: matching lines are rewritten; one line is appended when
\* none matched (average_written = 0)
RecomputeLines(lines, avg) ==
    LET body == [i \in DOMAIN lines |->
                    IF IsAverageLine(lines[i]) THEN AverageLine(avg)
                    ELSE lines[i]]
    IN  IF \E i \in DOMAIN lines : IsAverageLine(lines[i])
        THEN body ELSE Append(body, AverageLine(avg))

\* ------------------------------------------------------- add_student
\* calculate_average, printed with "%.2f"
calculate_average(g) == MeanChoices(g[1] + g[2] + g[3] + g[4])

\* the lines add_student writes, in order, for the operator's answers
StudentLines(in, avg) ==
    << "NAME = " \o in.name \o "\n",
       "FAMILY_NAME = " \o in.family \o "\n",
       "DOB = " \o in.dob \o "\n",
       "STUDENT_ID = " \o in.sid \o "\n",
       "FATHER_NAME = " \o in.father \o "\n",
       "MOTHER_NAME = " \o in.mother \o "\n",
       "PHONE_NUMBER = " \o in.phone \o "\n",
       "GRADE = " \o FmtInt(in.grade) \o "\n",
       "SUBJECT1_NAME = " \o in.subj[1] \o "\n",
       "SUBJECT1_GRADE = " \o FmtGrade(in.g[1]) \o "\n",
       "SUBJECT2_NAME = " \o in.subj[2] \o "\n",
       "SUBJECT2_GRADE = " \o FmtGrade(in.g[2]) \o "\n",
       "SUBJECT3_NAME = " \o in.subj[3] \o "\n",
       "SUBJECT3_GRADE = " \o FmtGrade(in.g[3]) \o "\n",
       "SUBJECT4_NAME = " \o in.subj[4] \o "\n",
       "SUBJECT4_GRADE = " \o FmtGrade(in.g[4]) \o "\n",
       AverageLine(avg) >>

\* ================================================================ state
VARIABLES
    dirs,        \* "none", "data" (data/ only) or "both" (data/students/ too)
    counter,     \* data/next_id.txt
    counterTmp,  \* data/next_id.txt.tmp
    rec,         \* rec[i]: data/students/output_<i>.txt
    editTmp,     \* editTmp[i]: temp_<i>.txt
    avgTmp,      \* avgTmp[i]: data/students/output_<i>.txt.avgtmp
    mutex,       \* file_mutex: 0 when free, else the thread holding it
    pc,          \* pc[t]: where thread t stands in its call
    cur,         \* cur[t]: the arguments and locals of t's call
    rep,         \* rep[t]: the file replacement t runs or has just finished
    hist,        \* the calls that have returned, in order of return
    faults,      \* system calls that have failed so far
    budget       \* budget[t]: calls thread t may still begin

vars == <<dirs, counter, counterTmp, rec, editTmp, avgTmp, mutex, pc, cur,
          rep, hist, faults, budget>>

disk == <<dirs, counter, counterTmp, rec, editTmp, avgTmp>>

IdleCur == [op |-> "none", id |-> 0, choice |-> 0, v |-> "", n |-> 0,
            left |-> {}]

NoRep == [kind |-> "none", id |-> 0, choice |-> 0, v |-> "",
          pre |-> NoFile, want |-> NoFile, phase |-> "none", out |-> ""]

\* one returned call: op, the thread, the id (or counter value) it was about,
\* its result, how it ended, for an edit the choice and the value typed, for
\* a load the counter file's text before the call (flag: it was absent), for
\* an add whether output_<id>.txt existed when it was opened for writing
Summary(op, t, id, res, out, choice, v, flag) ==
    [op |-> op, who |-> t, id |-> id, res |-> res, out |-> out,
     choice |-> choice, v |-> v, flag |-> flag]

\* ------------------------------------------------------------- inputs
Names == {"Ann", "Bob"}
GradeInputs == {6000, 8001}          \* scanf("%f") answers, in hundredths
StudentInputs ==
    [name : Names, family : {"Lee"}, dob : {"01/02/2010"}, sid : {"S1"},
     father : {"Tom"}, mother : {"Eve"}, phone : {"555"}, grade : {5},
     subj : {<<"Math", "Art", "Bio", "Gym">>},
     g : {<<a, 7000, 7000, a>> : a \in GradeInputs}]

EditChoices == 1..11
NewValues == {"07", "Zed"}
StoreValues == {1, 12, 12345}

\* the record of the unit test of recompute_average_grade
TestLines ==
    << "SUBJECT1_GRADE = 80.0\n", "SUBJECT2_GRADE = 90.0\n",
       "SUBJECT3_GRADE = 70.0\n", "SUBJECT4_GRADE = 60.0\n",
       "AVERAGE_GRADE = 0.00\n" >>

\* a record as add_student leaves it
SomeStudent ==
    StudentLines([name |-> "Ann", family |-> "Lee", dob |-> "01/02/2010",
                  sid |-> "S1", father |-> "Tom", mother |-> "Eve",
                  phone |-> "555", grade |-> 5,
                  subj |-> <<"Math", "Art", "Bio", "Gym">>,
                  g |-> <<6000, 7000, 7000, 8000>>], 7000)

\* --------------------------------------------------------- system calls
\* whether one more system call may fail
MayFail == faults < MaxFaults

Outcomes == IF MayFail THEN {TRUE, FALSE} ELSE {TRUE}

Spend(ok) == faults' = IF ok THEN faults ELSE faults + 1

\* ensure_data_directories: the directories afterwards and the result; a
\* mkdir that finds the directory (EEXIST) is no failure
EnsureOutcomes(d, mayFail) ==
    {[ok |-> TRUE, dirs |-> "both", used |-> 0]}
    \cup (IF mayFail /\ d = "none"
          THEN {[ok |-> FALSE, dirs |-> "none", used |-> 1]} ELSE {})
    \cup (IF mayFail /\ d # "both"
          THEN {[ok |-> FALSE, dirs |-> "data", used |-> 1]} ELSE {})

\* mutant: a counter file that does not hold an id >= 1 is written afresh
LoadOutcomesReseed(d, c, mayFail) ==
    IF c.ex /\ ~(ScanInt(c.txt, 1).ok /\ ScanInt(c.txt, 1).val >= 1)
    THEN {[res |-> 1, out |-> "ok", dirs |-> "both",
           counter |-> CounterFile("1\n"), used |-> 0]}
    ELSE {[res |-> IF c.ex THEN LoadParse(c.txt) ELSE 1, out |-> "ok",
           dirs |-> "both",
           counter |-> IF c.ex THEN c ELSE CounterFile("1\n"), used |-> 0]}

\* mutant: a missing counter file is reported as 1 but not created
LoadOutcomesNoSeed(d, c, mayFail) ==
    {[res |-> IF c.ex THEN LoadParse(c.txt) ELSE 1, out |-> "ok",
      dirs |-> "both", counter |-> c, used |-> 0]}

\* load_student_data(path): every (result, directories, counter file) the
\* call can end with
LoadOutcomes(d, c, mayFail) ==
    LET ens == EnsureOutcomes(d, mayFail)
    IN  {[res |-> -1, out |-> "nodirs", dirs |-> e.dirs, counter |-> c,
          used |-> 1] : e \in {x \in ens : ~x.ok}}
        \cup
        (IF c.ex
         THEN {[res |-> LoadParse(c.txt), out |-> "ok", dirs |-> "both",
                counter |-> c, used |-> 0]}
         ELSE {[res |-> 1, out |-> "ok", dirs |-> "both",
                counter |-> CounterFile("1\n"), used |-> 0]}
              \cup (IF mayFail
                    THEN {[res |-> -1, out |-> "noseed", dirs |-> "both",
                           counter |-> c, used |-> 1]}
                    ELSE {}))

\* thread t begins a call
Call(t) ==
    /\ pc[t] = "idle"
    /\ budget[t] > 0
    /\ budget' = [budget EXCEPT ![t] = @ - 1]

\* thread t's call returns
Return(t, summary) ==
    /\ pc' = [pc EXCEPT ![t] = "idle"]
    /\ cur' = [cur EXCEPT ![t] = IdleCur]
    /\ hist' = Append(hist, summary)

Goto(t, label) == pc' = [pc EXCEPT ![t] = label]

\* ========================================================= update_next_id
\* the file replacement of thread t ends with outcome `out`
RepDone(t, out) == rep' = [rep EXCEPT ![t].phase = "done", ![t].out = out]

\* update_next_id returns: to its caller add_student, or to the direct caller
UpdReturn(t, out) ==
    IF cur[t].op = "add"
    THEN Goto(t, "add_create") /\ UNCHANGED <<cur, hist>>
    ELSE Return(t, Summary("store", t, cur[t].n, 0, out, 0, "", FALSE))

\* a direct call update_next_id(path, n)
LibStore(t) ==
    /\ Call(t)
    /\ \E n \in StoreValues :
          cur' = [cur EXCEPT ![t] = [IdleCur EXCEPT !.op = "store", !.n = n]]
    /\ Goto(t, "upd_write")
    /\ rep' = [rep EXCEPT ![t] = NoRep]
    /\ UNCHANGED <<disk, mutex, hist, faults>>

\* fopen(temp_path, "w"); fprintf(file, "%d\n", new_id); fclose(file)
UpdWrite(t) ==
    /\ pc[t] = "upd_write"
    /\ \E ok \in Outcomes :
          LET want == CounterFile(CounterText(cur[t].n))
              r == [NoRep EXCEPT !.kind = "ctr", !.pre = counter,
                                 !.want = want]
          IN  /\ Spend(ok)
              /\ IF ok
                 THEN /\ counterTmp' = want
                      /\ rep' = [rep EXCEPT ![t] = [r EXCEPT !.phase = "open"]]
                      /\ Goto(t, "upd_remove")
                      /\ UNCHANGED <<cur, hist>>
                 ELSE /\ UNCHANGED counterTmp
                      /\ rep' = [rep EXCEPT ![t] =
                                    [r EXCEPT !.phase = "done",
                                              !.out = "fail_open"]]
                      /\ UpdReturn(t, "fail_open")
    /\ UNCHANGED <<dirs, counter, rec, editTmp, avgTmp, mutex>>
    /\ UNCHANGED budget

\* remove(path); the result is not looked at
UpdRemove(t) ==
    /\ pc[t] = "upd_remove"
    /\ \/ /\ counter.ex
          /\ \E ok \in Outcomes :
                /\ Spend(ok)
                /\ counter' = IF ok THEN NoCounter ELSE counter
       \/ /\ ~counter.ex
          /\ UNCHANGED <<counter, faults>>
    /\ Goto(t, "upd_rename")
    /\ UNCHANGED <<dirs, counterTmp, rec, editTmp, avgTmp, mutex, cur, rep,
                   hist>>
    /\ UNCHANGED budget

\* rename(temp_path, path); the result is not looked at
UpdRename(t) ==
    /\ pc[t] = "upd_rename"
    /\ \/ /\ counterTmp.ex
          /\ \E ok \in Outcomes :
                /\ Spend(ok)
                /\ IF ok
                   THEN /\ counter' = counterTmp
                        /\ counterTmp' = NoCounter
                        /\ RepDone(t, "ok")
                        /\ UpdReturn(t, "ok")
                   ELSE /\ UNCHANGED <<counter, counterTmp>>
                        /\ RepDone(t, "fail_rename")
                        /\ UpdReturn(t, "fail_rename")
       \/ /\ ~counterTmp.ex
          /\ UNCHANGED <<counter, counterTmp, faults>>
          /\ RepDone(t, "fail_rename")
          /\ UpdReturn(t, "fail_rename")
    /\ UNCHANGED <<dirs, rec, editTmp, avgTmp, mutex>>
    /\ UNCHANGED budget

\* ======================================================= load_student_data
\* a direct call load_student_data(path)
LibLoad(t) ==
    /\ Call(t)
    /\ \E o \in LoadOutcomes(dirs, counter, MayFail) :
          /\ dirs' = o.dirs
          /\ counter' = o.counter
          /\ faults' = faults + o.used
          /\ Return(t, Summary("load", t, 0, o.res, o.out, 0, counter.txt,
                               ~counter.ex))
    /\ rep' = [rep EXCEPT ![t] = NoRep]
    /\ UNCHANGED <<counterTmp, rec, editTmp, avgTmp, mutex>>

\* ============================================================= add_student
\* STEP 1: next_id = load_student_data(...); if (next_id < 1) return
AddLoad(t) ==
    /\ Call(t)
    /\ \E o \in LoadOutcomes(dirs, counter, MayFail) :
          /\ o.res <= MaxId
          /\ dirs' = o.dirs
          /\ counter' = o.counter
          /\ faults' = faults + o.used
          /\ IF o.res < 1
             THEN Return(t, Summary("add", t, 0, -1, "noid", 0, "", FALSE))
             ELSE /\ Goto(t, "upd_write")
                  /\ cur' = [cur EXCEPT ![t] =
                                [IdleCur EXCEPT !.op = "add", !.id = o.res,
                                                !.n = o.res + 1]]
                  /\ UNCHANGED hist
    /\ rep' = [rep EXCEPT ![t] = NoRep]
    /\ UNCHANGED <<counterTmp, rec, editTmp, avgTmp, mutex>>

\* STEP 2..6: fopen(filename, "w"), the answers, the 17 lines, fclose
AddCreate(t) ==
    /\ pc[t] = "add_create"
    /\ LET id == cur[t].id
       IN  \E ok \in Outcomes :
              /\ Spend(ok)
              /\ IF ok
                 THEN \E in \in StudentInputs :
                      \E avg \in calculate_average(in.g) :
                         /\ rec' = [rec EXCEPT ![id] =
                                       RecordFile(StudentLines(in, avg))]
                         /\ Return(t, Summary("add", t, id, id, "ok", 0, "",
                                              rec[id].ex))
                 ELSE /\ UNCHANGED rec
                      /\ Return(t, Summary("add", t, id, id, "fail_create",
                                           0, "", FALSE))
    /\ UNCHANGED <<dirs, counter, counterTmp, editTmp, avgTmp, mutex, rep>>
    /\ UNCHANGED budget

\* ================================================= recompute_average_grade
RecomputeIds == {1}

\* recompute_average_grade returns res: to edit_student, which does not
\* look at it, or to the direct caller
AvgReturn(t, res, out) ==
    IF cur[t].op = "edit"
    THEN Goto(t, "edit_unlock") /\ UNCHANGED <<cur, hist>>
    ELSE Return(t, Summary("recompute", t, cur[t].id, res, out, 0, "", FALSE))

\* a direct call recompute_average_grade(filename)
LibRecompute(t) ==
    /\ Call(t)
    /\ \E id \in RecomputeIds :
          cur' = [cur EXCEPT ![t] =
                     [IdleCur EXCEPT !.op = "recompute", !.id = id]]
    /\ Goto(t, "avg_write")
    /\ rep' = [rep EXCEPT ![t] = NoRep]
    /\ UNCHANGED <<disk, mutex, hist, faults>>

\* the scan of the four grades, then the copy into <filename>.avgtmp
AvgWrite(t) ==
    /\ pc[t] = "avg_write"
    /\ LET id == cur[t].id
           f  == rec[id]
           r  == [NoRep EXCEPT !.kind = "avg", !.id = id, !.pre = f,
                               !.want = f, !.phase = "done"]
       IN  \/ /\ ~f.ex                       \* fopen(filename, "r") fails
              /\ rep' = [rep EXCEPT ![t] = [r EXCEPT !.out = "nofile"]]
              /\ AvgReturn(t, -1, "nofile")
              /\ UNCHANGED <<avgTmp, faults>>
           \/ /\ f.ex /\ ~HaveAll(f.txt)     \* missing subject grades
              /\ rep' = [rep EXCEPT ![t] = [r EXCEPT !.out = "missing"]]
              /\ AvgReturn(t, -1, "missing")
              /\ UNCHANGED <<avgTmp, faults>>
           \/ /\ f.ex /\ HaveAll(f.txt)
              /\ \E avg \in MeanChoices(GradeSum(f.txt)) :
                 \E ok \in Outcomes :       \* fopen(tempname, "w")
                    LET want == RecordFile(RecomputeLines(f.txt, avg))
                    IN  /\ Spend(ok)
                        /\ IF ok
                           THEN /\ avgTmp' = [avgTmp EXCEPT ![id] = want]
                                /\ rep' = [rep EXCEPT ![t] =
                                              [r EXCEPT !.want = want,
                                                        !.phase = "open"]]
                                /\ Goto(t, "avg_remove")
                                /\ UNCHANGED <<cur, hist>>
                           ELSE /\ UNCHANGED avgTmp
                                /\ rep' = [rep EXCEPT ![t] =
                                              [r EXCEPT !.out = "fail_open"]]
                                /\ AvgReturn(t, -1, "fail_open")
    /\ UNCHANGED <<dirs, counter, counterTmp, rec, editTmp, mutex>>
    /\ UNCHANGED budget

\* remove(filename); on failure remove(tempname) and return -1
AvgRemove(t) ==
    /\ pc[t] = "avg_remove"
    /\ LET id == cur[t].id
       IN  \E ok \in (IF rec[id].ex THEN Outcomes ELSE {FALSE}) :
              /\ faults' = IF ok \/ ~rec[id].ex THEN faults ELSE faults + 1
              /\ IF ok
                 THEN /\ rec' = [rec EXCEPT ![id] = NoFile]
                      /\ Goto(t, "avg_rename")
                      /\ UNCHANGED <<avgTmp, cur, hist, rep>>
                 ELSE /\ avgTmp' = [avgTmp EXCEPT ![id] = NoFile]
                      /\ RepDone(t, "fail_remove")
                      /\ AvgReturn(t, -1, "fail_remove")
                      /\ UNCHANGED rec
    /\ UNCHANGED <<dirs, counter, counterTmp, editTmp, mutex>>
    /\ UNCHANGED budget

\* rename(tempname, filename); on failure remove(tempname) and return -1
AvgRename(t) ==
    /\ pc[t] = "avg_rename"
    /\ LET id == cur[t].id
       IN  \E ok \in (IF avgTmp[id].ex THEN Outcomes ELSE {FALSE}) :
              /\ faults' = IF ok \/ ~avgTmp[id].ex THEN faults ELSE faults + 1
              /\ avgTmp' = [avgTmp EXCEPT ![id] = NoFile]
              /\ IF ok
                 THEN /\ rec' = [rec EXCEPT ![id] = avgTmp[id]]
                      /\ RepDone(t, "ok")
                      /\ AvgReturn(t, 0, "ok")
                 ELSE /\ UNCHANGED rec
                      /\ RepDone(t, "fail_rename")
                      /\ AvgReturn(t, -1, "fail_rename")
    /\ UNCHANGED <<dirs, counter, counterTmp, editTmp, mutex>>
    /\ UNCHANGED budget

\* ============================================================ edit_student
EditIds == {1}

\* SECTIONS 1-4: the directories, the id, the choice, the value, validation
EditStart(t) ==
    /\ Call(t)
    /\ \E e \in EnsureOutcomes(dirs, MayFail) :
          /\ dirs' = e.dirs
          /\ faults' = faults + e.used
          /\ IF ~e.ok
             THEN Return(t, Summary("edit", t, 0, 0, "nodirs", 0, "", FALSE))
             ELSE \E id \in EditIds, choice \in EditChoices, v \in NewValues :
                     IF ~ValidEdit(choice, v)
                     THEN Return(t, Summary("edit", t, id, 0, "invalid",
                                            choice, v, FALSE))
                     ELSE /\ cur' = [cur EXCEPT ![t] =
                                        [IdleCur EXCEPT !.op = "edit",
                                            !.id = id, !.choice = choice,
                                            !.v = v]]
                          /\ Goto(t, "edit_lock")
                          /\ UNCHANGED hist
    /\ rep' = [rep EXCEPT ![t] = NoRep]
    /\ UNCHANGED <<counter, counterTmp, rec, editTmp, avgTmp, mutex>>

\* pthread_mutex_lock(&file_mutex)
EditLock(t) ==
    /\ pc[t] = "edit_lock"
    /\ mutex = 0
    /\ mutex' = t
    /\ Goto(t, "edit_write")
    /\ UNCHANGED <<disk, cur, rep, hist, faults>>
    /\ UNCHANGED budget

\* edit_student returns without success, releasing the mutex
EditFail(t, out) ==
    /\ mutex' = 0
    /\ Return(t, Summary("edit", t, cur[t].id, 0, out, cur[t].choice,
                         cur[t].v, FALSE))

\* SECTIONS 5-6: open the record and temp_<id>.txt, copy with the field
\* replaced; SECTION 7: the `updated` test
EditWrite(t) ==
    /\ pc[t] = "edit_write"
    /\ LET id == cur[t].id
           f  == rec[id]
           r  == [NoRep EXCEPT !.kind = "edit", !.id = id,
                               !.choice = cur[t].choice, !.v = cur[t].v,
                               !.pre = f, !.want = f, !.phase = "done"]
       IN  \/ /\ ~f.ex                       \* fopen(filename, "r") fails
              /\ rep' = [rep EXCEPT ![t] = [r EXCEPT !.out = "nofile"]]
              /\ EditFail(t, "nofile")
              /\ UNCHANGED <<editTmp, faults>>
           \/ /\ f.ex
              /\ \E ok \in Outcomes :       \* fopen(tempname, "w")
                    LET want == RecordFile(RewriteLines(f.txt, cur[t].choice,
                                                        cur[t].v))
                    IN  /\ Spend(ok)
                        /\ IF ~ok
                           THEN /\ rep' = [rep EXCEPT ![t] =
                                              [r EXCEPT !.out = "fail_open"]]
                                /\ EditFail(t, "fail_open")
                                /\ UNCHANGED editTmp
                           ELSE IF ~Updated(f.txt, cur[t].choice)
                           THEN /\ editTmp' = [editTmp EXCEPT ![id] = NoFile]
                                /\ rep' = [rep EXCEPT ![t] =
                                              [r EXCEPT !.out = "notfound"]]
                                /\ EditFail(t, "notfound")
                           ELSE /\ editTmp' = [editTmp EXCEPT ![id] = want]
                                /\ rep' = [rep EXCEPT ![t] =
                                              [r EXCEPT !.want = want,
                                                        !.phase = "open"]]
                                /\ Goto(t, "edit_remove")
                                /\ UNCHANGED <<cur, hist, mutex>>
    /\ UNCHANGED <<dirs, counter, counterTmp, rec, avgTmp>>
    /\ UNCHANGED budget

\* remove(filename); on failure unlock and return
EditRemove(t) ==
    /\ pc[t] = "edit_remove"
    /\ LET id == cur[t].id
       IN  \E ok \in (IF rec[id].ex THEN Outcomes ELSE {FALSE}) :
              /\ faults' = IF ok \/ ~rec[id].ex THEN faults ELSE faults + 1
              /\ IF ok
                 THEN /\ rec' = [rec EXCEPT ![id] = NoFile]
                      /\ Goto(t, "edit_rename")
                      /\ UNCHANGED <<cur, hist, rep, mutex>>
                 ELSE /\ UNCHANGED rec
                      /\ RepDone(t, "fail_remove")
                      /\ EditFail(t, "fail_remove")
    /\ UNCHANGED <<dirs, counter, counterTmp, editTmp, avgTmp>>
    /\ UNCHANGED budget

\* rename(tempname, filename); on failure unlock and return
EditRename(t) ==
    /\ pc[t] = "edit_rename"
    /\ LET id == cur[t].id
       IN  \E ok \in (IF editTmp[id].ex THEN Outcomes ELSE {FALSE}) :
              /\ faults' = IF ok \/ ~editTmp[id].ex THEN faults ELSE faults + 1
              /\ IF ok
                 THEN /\ rec' = [rec EXCEPT ![id] = editTmp[id]]
                      /\ editTmp' = [editTmp EXCEPT ![id] = NoFile]
                      /\ RepDone(t, "ok")
                      /\ Goto(t, "edit_after")
                      /\ UNCHANGED <<cur, hist, mutex>>
                 ELSE /\ UNCHANGED <<rec, editTmp>>
                      /\ RepDone(t, "fail_rename")
                      /\ EditFail(t, "fail_rename")
    /\ UNCHANGED <<dirs, counter, counterTmp, avgTmp>>
    /\ UNCHANGED budget

\* second pass: recompute_average_grade(filename) after a subject edit
EditRecompute(t) ==
    /\ pc[t] = "edit_after"
    /\ IsSubjectChoice(cur[t].choice)
    /\ Goto(t, "avg_write")
    /\ UNCHANGED <<disk, mutex, cur, rep, hist, faults>>
    /\ UNCHANGED budget

\* pthread_mutex_unlock(&file_mutex); "Student %d updated successfully."
EditUnlock(t) ==
    /\ \/ pc[t] = "edit_after" /\ ~IsSubjectChoice(cur[t].choice)
       \/ pc[t] = "edit_unlock"
    /\ mutex' = 0
    /\ Return(t, Summary("edit", t, cur[t].id, 1, "ok", cur[t].choice,
                         cur[t].v, FALSE))
    /\ UNCHANGED <<disk, rep, faults>>
    /\ UNCHANGED budget

\* ============================================================ reset_system
\* the entries of STUDENT_DIR other than "." and "..": the record files and
\* the <record>.avgtmp files (temp_<id>.txt is not in that directory)
DirEntries ==
    {[kind |-> "rec", id |-> i] : i \in {j \in Ids : rec[j].ex}}
        \cup {[kind |-> "avg", id |-> i] : i \in {j \in Ids : avgTmp[j].ex}}

\* reset_system returns early, releasing the mutex
ResetFail(t, out) ==
    /\ mutex' = 0
    /\ Return(t, Summary("reset", t, 0, 0, out, 0, "", FALSE))

\* ensure_data_directories(); on failure return
ResetStart(t) ==
    /\ Call(t)
    /\ \E e \in EnsureOutcomes(dirs, MayFail) :
          /\ dirs' = e.dirs
          /\ faults' = faults + e.used
          /\ IF ~e.ok
             THEN Return(t, Summary("reset", t, 0, 0, "nodirs", 0, "", FALSE))
             ELSE /\ cur' = [cur EXCEPT ![t] = [IdleCur EXCEPT !.op = "reset"]]
                  /\ Goto(t, "reset_lock")
                  /\ UNCHANGED hist
    /\ rep' = [rep EXCEPT ![t] = NoRep]
    /\ UNCHANGED <<counter, counterTmp, rec, editTmp, avgTmp, mutex>>

\* pthread_mutex_lock(&file_mutex)
ResetLock(t) ==
    /\ pc[t] = "reset_lock"
    /\ mutex = 0
    /\ mutex' = t
    /\ Goto(t, "reset_counter")
    /\ UNCHANGED <<disk, cur, rep, hist, faults, budget>>

\* fopen("data/next_id.txt", "w"); fprintf(id_file, "1\n"); fclose(id_file)
ResetCounter(t) ==
    /\ pc[t] = "reset_counter"
    /\ \E ok \in Outcomes :
          /\ Spend(ok)
          /\ IF ok
             THEN /\ counter' = CounterFile("1\n")
                  /\ Goto(t, "reset_opendir")
                  /\ UNCHANGED <<cur, hist, mutex>>
             ELSE /\ UNCHANGED counter
                  /\ ResetFail(t, "fail_open")
    /\ UNCHANGED <<dirs, counterTmp, rec, editTmp, avgTmp, rep, budget>>

\* opendir(STUDENT_DIR); on failure unlock and return
ResetOpenDir(t) ==
    /\ pc[t] = "reset_opendir"
    /\ \E ok \in Outcomes :
          /\ Spend(ok)
          /\ IF ok
             THEN /\ cur' = [cur EXCEPT ![t].left = DirEntries]
                  /\ Goto(t, "reset_scan")
                  /\ UNCHANGED <<hist, mutex>>
             ELSE ResetFail(t, "fail_opendir")
    /\ UNCHANGED <<disk, rep, budget>>

\* one turn of the readdir loop: remove(path), its result not looked at
ResetRemove(t) ==
    /\ pc[t] = "reset_scan"
    /\ \E e \in cur[t].left :
          LET there == IF e.kind = "rec" THEN rec[e.id].ex
                       ELSE avgTmp[e.id].ex
          IN  \E ok \in (IF there THEN Outcomes ELSE {FALSE}) :
                 /\ faults' = IF ok \/ ~there THEN faults ELSE faults + 1
                 /\ rec' = IF ok /\ e.kind = "rec"
                           THEN [rec EXCEPT ![e.id] = NoFile] ELSE rec
                 /\ avgTmp' = IF ok /\ e.kind = "avg"
                              THEN [avgTmp EXCEPT ![e.id] = NoFile]
                              ELSE avgTmp
                 /\ cur' = [cur EXCEPT ![t].left = @ \ {e}]
    /\ UNCHANGED <<dirs, counter, counterTmp, editTmp, mutex, pc, rep, hist,
                   budget>>

\* readdir returns NULL: closedir(dir); pthread_mutex_unlock(&file_mutex);
\* "System reset: ID counter set to 1 and all student files removed."
ResetUnlock(t) ==
    /\ pc[t] = "reset_scan"
    /\ cur[t].left = {}
    /\ mutex' = 0
    /\ Return(t, Summary("reset", t, 0, 1, "ok", 0, "", FALSE))
    /\ UNCHANGED <<disk, rep, faults, budget>>

\* =========================================================== specifications
NoRecords == [i \in Ids |-> NoFile]

TypeInit ==
    /\ counterTmp = NoCounter
    /\ editTmp = NoRecords
    /\ avgTmp = NoRecords
    /\ mutex = 0
    /\ pc = [t \in Threads |-> "idle"]
    /\ cur = [t \in Threads |-> IdleCur]
    /\ rep = [t \in Threads |-> NoRep]
    /\ hist = <<>>
    /\ faults = 0

\* the program on its first run, or after one student has been added; each
\* thread makes one call
Init ==
    /\ TypeInit
    /\ budget = [t \in Threads |-> 1]
    /\ \/ /\ dirs = "none"
          /\ counter = NoCounter
          /\ rec = NoRecords
       \/ /\ dirs = "both"
          /\ counter = CounterFile(CounterText(2))
          /\ rec = [NoRecords EXCEPT ![1] = RecordFile(SomeStudent)]

\* threads calling add_student and edit_student
Next ==
    \E t \in Threads :
        \/ AddLoad(t) \/ UpdWrite(t) \/ UpdRemove(t) \/ UpdRename(t)
        \/ AddCreate(t)
        \/ EditStart(t) \/ EditLock(t) \/ EditWrite(t) \/ EditRemove(t)
        \/ EditRename(t) \/ EditRecompute(t) \/ EditUnlock(t)
        \/ AvgWrite(t) \/ AvgRemove(t) \/ AvgRename(t)

Spec == Init /\ [][Next]_vars

\* counter files: the unit tests' contents, and an empty file
SeqCounters == {"7\n", "0\n", "-5\n", "abc\n", ""}

\* a single caller of the counter functions and of add_student, on a disk
\* left by earlier use
InitSeq ==
    /\ TypeInit
    /\ budget = [t \in Threads |-> IF t = 1 THEN MaxCalls ELSE 0]
    /\ \/ /\ dirs \in {"none", "both"}
          /\ counter \in {NoCounter} \cup {CounterFile(c) : c \in SeqCounters}
          /\ rec = NoRecords
       \/ /\ dirs = "both"
          /\ counter = CounterFile(CounterText(2))
          /\ rec = [NoRecords EXCEPT ![1] = RecordFile(SomeStudent)]

NextSeq ==
    \E t \in Threads :
        \/ LibLoad(t) \/ LibStore(t)
        \/ AddLoad(t) \/ UpdWrite(t) \/ UpdRemove(t) \/ UpdRename(t)
        \/ AddCreate(t)

SpecSeq == InitSeq /\ [][NextSeq]_vars

\* record files a caller may hand to the library: the unit test's record, a
\* record as add_student writes it, one without SUBJECT4_GRADE, one with a
\* key twice, one without AVERAGE_GRADE, one whose SUBJECT4_GRADE is not a
\* number, one with AVERAGE_GRADE twice, one whose mean ends in half a
\* hundredth
NoSubject4 == SubSeq(TestLines, 1, 3) \o <<TestLines[5]>>

TwiceNamed == <<"NAME = Ann\n", "NAME = Bob\n">> \o TestLines

NoAverage == <<"NAME = Ann\n">> \o SubSeq(TestLines, 1, 4)

BadSubject4 == SubSeq(TestLines, 1, 3) \o <<"SUBJECT4_GRADE = abc\n">>
                   \o <<TestLines[5]>>

TwiceAveraged == TestLines \o <<"AVERAGE_GRADE = 1.00\n">>

HalfCent == <<"SUBJECT1_GRADE = 80.02\n">> \o SubSeq(TestLines, 2, 5)

SeqRecords ==
    {SomeStudent, TestLines, NoSubject4, TwiceNamed, NoAverage, BadSubject4,
     TwiceAveraged, HalfCent}

\* a single caller of the functions that replace a file
InitRec ==
    /\ TypeInit
    /\ budget = [t \in Threads |-> IF t = 1 THEN MaxRecCalls ELSE 0]
    /\ \/ /\ dirs \in {"none", "both"}
          /\ counter = NoCounter
          /\ rec = NoRecords
       \/ /\ dirs = "both"
          /\ counter = CounterFile("7\n")
          /\ \E ls \in SeqRecords :
                rec = [NoRecords EXCEPT ![1] = RecordFile(ls)]

NextRec ==
    \E t \in Threads :
        \/ LibStore(t) \/ UpdWrite(t) \/ UpdRemove(t) \/ UpdRename(t)
        \/ LibRecompute(t)
        \/ EditStart(t) \/ EditLock(t) \/ EditWrite(t) \/ EditRemove(t)
        \/ EditRename(t) \/ EditRecompute(t) \/ EditUnlock(t)
        \/ AvgWrite(t) \/ AvgRemove(t) \/ AvgRename(t)

SpecRec == InitRec /\ [][NextRec]_vars

\* a single caller of add_student and reset_system, on a disk left by
\* earlier use: up to two students on record
InitReset ==
    /\ TypeInit
    /\ budget = [t \in Threads |-> IF t = 1 THEN MaxCalls ELSE 0]
    /\ \/ /\ dirs = "none"
          /\ counter = NoCounter
          /\ rec = NoRecords
       \/ /\ dirs = "both"
          /\ \E n \in 1..2 :
                /\ counter = CounterFile(CounterText(n + 1))
                /\ rec = [i \in Ids |-> IF i <= n THEN RecordFile(SomeStudent)
                                        ELSE NoFile]

NextReset ==
    \E t \in Threads :
        \/ AddLoad(t) \/ UpdWrite(t) \/ UpdRemove(t) \/ UpdRename(t)
        \/ AddCreate(t)
        \/ ResetStart(t) \/ ResetLock(t) \/ ResetCounter(t)
        \/ ResetOpenDir(t) \/ ResetRemove(t) \/ ResetUnlock(t)

SpecReset == InitReset /\ [][NextReset]_vars


\* ================================================================= claims
Idle == \A t \in Threads : pc[t] = "idle"

Last == hist[Len(hist)]

\* the path a replacement is about, and the temporary file it writes
Target(r) == IF r.kind = "ctr" THEN counter ELSE rec[r.id]

Temp(r) ==
    IF r.kind = "ctr" THEN counterTmp
    ELSE IF r.kind = "edit" THEN editTmp[r.id] ELSE avgTmp[r.id]

\* C1: once a file-replacing operation (the field edit of edit_student,
\* recompute_average_grade, update_next_id) has ended, by success or by any
\* failure, the target path holds its pre-call content or the complete
\* intended content: it is never missing or partial.
C1_PreOrPost ==
    \A t \in Threads :
        rep[t].phase = "done" =>
            \/ Target(rep[t]) = rep[t].pre
            \/ Target(rep[t]) = rep[t].want

\* C2: the temporary file of a replace operation does not exist once the
\* operation has ended, on the success path and on every failure path.
C2_NoTempLeft ==
    \A t \in Threads :
        rep[t].phase = "done" => ~Temp(rep[t]).ex

\* the threads inside edit_student's locked section
InCritical(t) ==
    \/ pc[t] \in {"edit_write", "edit_remove", "edit_rename", "edit_after",
                  "edit_unlock"}
    \/ cur[t].op = "edit" /\ pc[t] \in {"avg_write", "avg_remove", "avg_rename"}

\* the first half of C3: the locked sections of two edit_student calls never
\* overlap, and the thread inside holds the mutex
MutualExclusion ==
    \A t, u \in Threads :
        InCritical(t) => mutex = t /\ (InCritical(u) => u = t)

HasLine(f, line) == f.ex /\ \E i \in DOMAIN f.txt : f.txt[i] = line

\* C3: when two callers edit two different fields of the same record and
\* both report success, the final file contains both new values.
C3_NoLostUpdate ==
    \A i, j \in DOMAIN hist :
        (/\ Idle
         /\ hist[i].op = "edit" /\ hist[j].op = "edit"
         /\ hist[i].out = "ok" /\ hist[j].out = "ok"
         /\ hist[i].who # hist[j].who
         /\ hist[i].id = hist[j].id
         /\ hist[i].choice # hist[j].choice)
        => /\ HasLine(rec[hist[i].id], NewLine(hist[i].choice, hist[i].v))
           /\ HasLine(rec[hist[j].id], NewLine(hist[j].choice, hist[j].v))

\* C4: two concurrent add_student calls obtain different student ids.  The
\* statement is kept to runs in which no system call fails, so that what
\* refutes it is an interleaving alone.
C4_DistinctIds ==
    \A i, j \in DOMAIN hist :
        (/\ faults = 0
         /\ i # j
         /\ hist[i].op = "add" /\ hist[j].op = "add"
         /\ hist[i].res >= 1 /\ hist[j].res >= 1)
        => hist[i].id # hist[j].id

\* C5: in a single-threaded sequence of add_student calls, a call that
\* issues id n leaves the counter file holding n+1, whatever the outcome of
\* its I/O steps, and no call opens an existing output_<id>.txt for writing.
C5_CounterAdvanced ==
    /\ (Idle /\ hist # <<>> /\ Last.op = "add" /\ Last.res >= 1)
        => counter = CounterFile(CounterText(Last.id + 1))
    /\ (\A k \in DOMAIN hist : hist[k].op = "add")
        => \A k \in DOMAIN hist : ~hist[k].flag

\* the text "<n>\n" for the values stored
DecimalLine(n) ==
    CASE n = 1 -> "1\n" [] n = 12 -> "12\n" [] n = 12345 -> "12345\n"

\* C6: update_next_id(p, n) whose temp write and rename succeed leaves p
\* holding exactly "<n>\n", whatever p held before, and a load_student_data(p)
\* that follows it returns n.
C6_RoundTrip ==
    \A i \in DOMAIN hist :
        (hist[i].op = "store" /\ hist[i].out = "ok") =>
            /\ (i = Len(hist) /\ Idle)
                => counter = CounterFile(DecimalLine(hist[i].id))
            /\ (i < Len(hist) /\ hist[i + 1].op = "load"
                              /\ hist[i + 1].out # "nodirs")
                => /\ hist[i + 1].res = hist[i].id
                   /\ (i + 1 = Len(hist) /\ Idle)
                        => counter = CounterFile(DecimalLine(hist[i].id))

C6_Witness ==
    /\ Len(hist) = 2 /\ Idle
    /\ hist[1].op = "store" /\ hist[1].out = "ok" /\ hist[1].id = 12345
    /\ hist[2].op = "load" /\ hist[2].res = 12345

\* C7, as claimed: load_student_data returns an integer >= 1 in every case,
\* also when creating the data directories or the seed file fails.
C7_AlwaysPositive ==
    \A i \in DOMAIN hist : hist[i].op = "load" => hist[i].res >= 1

\* C7, amended: load_student_data returns an integer >= 1 when the counter
\* path is absent and can be created, or present with valid or corrupt
\* content; it returns -1 exactly when creating the data directories or the
\* seed file fails.
C7_PositiveOrMinusOne ==
    \A i \in DOMAIN hist :
        hist[i].op = "load" =>
            /\ hist[i].out = "ok" => hist[i].res >= 1
            /\ hist[i].out # "ok" =>
                    /\ hist[i].res = -1
                    /\ hist[i].out \in {"nodirs", "noseed"}
                    /\ faults > 0
            /\ hist[i].out = "noseed" => hist[i].flag

C7_Witness ==
    \E i \in DOMAIN hist :
        hist[i].op = "load" /\ hist[i].out = "noseed" /\ hist[i].res = -1

\* counter contents whose leading token is no integer, or an integer < 1
CorruptTexts == {"0\n", "-5\n", "abc\n", ""}

\* C8: when the counter file exists with a leading token that is not an
\* integer or is an integer < 1 (and the data directories could be ensured),
\* load_student_data returns 1 and leaves the file's content unchanged.
C8_CorruptReturnsOne ==
    \A i \in DOMAIN hist :
        (/\ hist[i].op = "load" /\ ~hist[i].flag
         /\ hist[i].v \in CorruptTexts
         /\ hist[i].out # "nodirs")
        => /\ hist[i].res = 1
           /\ (i = Len(hist) /\ Idle) => counter = CounterFile(hist[i].v)

C8_Witness ==
    /\ Idle /\ hist # <<>>
    /\ Last.op = "load" /\ ~Last.flag /\ Last.v = "-5\n" /\ Last.res = 1
    /\ counter = CounterFile("-5\n")

\* C9: when the counter path does not exist and can be created,
\* load_student_data creates it with content "1\n" and returns 1, and a
\* second load_student_data then also returns 1.
C9_SeedsOne ==
    \A i \in DOMAIN hist :
        (hist[i].op = "load" /\ hist[i].flag /\ hist[i].out = "ok") =>
            /\ hist[i].res = 1
            /\ (i = Len(hist) /\ Idle) => counter = CounterFile("1\n")
            /\ (i < Len(hist) /\ hist[i + 1].op = "load")
                => /\ hist[i + 1].res = 1
                   /\ ~hist[i + 1].flag /\ hist[i + 1].v = "1\n"

C9_Witness ==
    /\ Len(hist) = 2
    /\ hist[1].op = "load" /\ hist[1].flag /\ hist[1].res = 1
    /\ hist[2].op = "load" /\ hist[2].res = 1

\* the value a valid edit writes: "07" is the one numeric answer offered
WrittenValue(choice, v) ==
    IF choice = 2 THEN "7"
    ELSE IF choice \in {8, 9, 10, 11} THEN "7.00"
    ELSE v

\* the lines of ls that begin with "KEY = "
KeyLines(ls, choice) ==
    {i \in DOMAIN ls : IsPrefix(FieldKey(choice) \o " = ", ls[i])}

\* a field edit of thread t has replaced the record file
FieldEdited(t) ==
    rep[t].kind = "edit" /\ rep[t].phase = "done" /\ rep[t].out = "ok"

\* C10: a successful field edit on a record in which the target key occurs
\* exactly once replaces that key's line with "KEY = <new value>\n" and
\* leaves every other line as it was and where it was: the line count and
\* the line order do not change.
C10_OnlyThatLine ==
    \A t \in Threads :
        LET r   == rep[t]
            old == r.pre.txt
            new == rec[r.id].txt
        IN  (FieldEdited(t) /\ Cardinality(KeyLines(old, r.choice)) = 1) =>
                /\ rec[r.id].ex
                /\ Len(new) = Len(old)
                /\ \A i \in DOMAIN old :
                      new[i] = IF i \in KeyLines(old, r.choice)
                               THEN FieldKey(r.choice) \o " = "
                                    \o WrittenValue(r.choice, r.v) \o "\n"
                               ELSE old[i]

C10_Witness ==
    \E t \in Threads :
        /\ FieldEdited(t) /\ rep[t].choice = 2
        /\ Cardinality(KeyLines(rep[t].pre.txt, 2)) = 1
        /\ Len(rep[t].pre.txt) = 17
        /\ rec[rep[t].id].txt[8] = "GRADE = 7\n"

\* the first line of ls that begins with the prefix of the choice's key
FirstKeyLine(ls, choice) ==
    CHOOSE i \in KeyLines(ls, choice) :
        \A j \in KeyLines(ls, choice) : i <= j

\* C11: a successful field edit on a record in which several lines begin
\* with the target key's prefix "KEY = " rewrites only the first such line;
\* the second and later matching lines, like every other line, are copied
\* verbatim.
C11_FirstOnly ==
    \A t \in Threads :
        LET r   == rep[t]
            old == r.pre.txt
            new == rec[r.id].txt
        IN  (FieldEdited(t) /\ Cardinality(KeyLines(old, r.choice)) > 1) =>
                /\ rec[r.id].ex
                /\ Len(new) = Len(old)
                /\ \A i \in DOMAIN old :
                      new[i] = IF i = FirstKeyLine(old, r.choice)
                               THEN FieldKey(r.choice) \o " = "
                                    \o WrittenValue(r.choice, r.v) \o "\n"
                               ELSE old[i]

\* the field edit of thread t has ended on a record that exists and in which
\* no line begins with the prefix of the target key
EditedWithoutKey(t) ==
    /\ rep[t].kind = "edit" /\ rep[t].phase = "done"
    /\ rep[t].pre.ex
    /\ KeyLines(rep[t].pre.txt, rep[t].choice) = {}

\* C12: when no line of the record begins with the target key's prefix, the
\* field edit reports the field as not found (a temp file that cannot be
\* opened is reported as that failure instead), the record file still exists
\* and is byte-identical to its pre-call content, the temp file the edit
\* wrote is removed, and edit_student returns without running the average recompute and
\* without reporting success.
C12_NotFoundNoChange ==
    \A t \in Threads :
        EditedWithoutKey(t) =>
            /\ rep[t].out \in {"notfound", "fail_open"}
            /\ rep[t].out = "fail_open" => faults > 0
            /\ rec[rep[t].id] = rep[t].pre
            /\ rep[t].out = "notfound" => ~editTmp[rep[t].id].ex
            /\ ~avgTmp[rep[t].id].ex
            /\ pc[t] = "idle"
            /\ hist /= <<>>
            /\ Last.op = "edit" /\ Last.res = 0 /\ Last.out = rep[t].out

C12_Witness ==
    \E t \in Threads :
        /\ EditedWithoutKey(t)
        /\ rep[t].out = "notfound"
        /\ rep[t].choice = 3
        /\ rep[t].pre.txt = TestLines
        /\ Last.out = "notfound"

\* the record holds a line "SUBJECTn_GRADE = <number>"
SubjectPresent(ls, n) ==
    \E i \in DOMAIN ls :
        /\ IsPrefix(SubjectKey(n) \o " = ", ls[i])
        /\ ScanFloat(ls[i], Len(SubjectKey(n)) + 4).ok

AllSubjectsPresent(ls) == \A n \in 1..4 : SubjectPresent(ls, n)

\* recompute_average_grade of thread t has ended on a record that exists
Recomputed(t) ==
    rep[t].kind = "avg" /\ rep[t].phase = "done" /\ rep[t].pre.ex

\* C13: recompute_average_grade on a record in which one of the four
\* SUBJECTn_GRADE fields is absent or is not a number ends with the
\* missing-grades failure (-1 to its caller), the record file byte-identical
\* to its pre-call content and no <record>.avgtmp file on disk.
C13_MissingNoWrite ==
    \A t \in Threads :
        (Recomputed(t) /\ ~AllSubjectsPresent(rep[t].pre.txt)) =>
            /\ rep[t].out = "missing"
            /\ rec[rep[t].id] = rep[t].pre
            /\ ~avgTmp[rep[t].id].ex
            /\ (pc[t] = "idle" /\ hist /= <<>> /\ Last.op = "recompute") =>
                   (Last.res = -1 /\ Last.out = "missing")

C13_Witness ==
    \E t \in Threads :
        /\ Recomputed(t)
        /\ rep[t].pre.txt = BadSubject4
        /\ rep[t].out = "missing"
        /\ pc[t] = "idle" /\ Last.op = "recompute" /\ Last.res = -1

\* the grade on the line "SUBJECTn_GRADE = <number>", in hundredths
SubjectValue(ls, n) ==
    LET i == CHOOSE i \in DOMAIN ls :
                 /\ IsPrefix(SubjectKey(n) \o " = ", ls[i])
                 /\ ScanFloat(ls[i], Len(SubjectKey(n)) + 4).ok
    IN  ScanFloat(ls[i], Len(SubjectKey(n)) + 4).val

SubjectTotal(ls) ==
    SubjectValue(ls, 1) + SubjectValue(ls, 2) + SubjectValue(ls, 3)
        + SubjectValue(ls, 4)

\* a is (g1+g2+g3+g4)/4 to two decimal places: a hundredth nearest to the
\* quotient
IsMeanOf(a, ls) ==
    LET d == 4 * a - SubjectTotal(ls)
    IN  d >= -2 /\ d <= 2

AverageLines(ls) == {i \in DOMAIN ls : IsPrefix("AVERAGE_GRADE = ", ls[i])}

\* the record's AVERAGE_GRADE is the mean of the grades of record `of`
AverageIsMean(ls, of) ==
    /\ AverageLines(ls) /= {}
    /\ \E a \in (SubjectTotal(of) \div 4 - 1)..(SubjectTotal(of) \div 4 + 1) :
          /\ IsMeanOf(a, of)
          /\ \A i \in AverageLines(ls) :
                ls[i] = "AVERAGE_GRADE = " \o FmtGrade(a) \o "\n"

\* C14: recompute_average_grade on a record holding all four SUBJECTn_GRADE
\* fields fails only when a system call fails; when it succeeds it returns 0
\* and AVERAGE_GRADE on disk is (g1+g2+g3+g4)/4 of the grades on disk, with
\* two decimal places, whatever AVERAGE_GRADE held before.
C14_MeanWritten ==
    \A t \in Threads :
        (Recomputed(t) /\ AllSubjectsPresent(rep[t].pre.txt)) =>
            /\ rep[t].out /= "ok" => faults > 0
            /\ rep[t].out = "ok" =>
                  /\ rec[rep[t].id].ex
                  /\ AverageIsMean(rec[rep[t].id].txt, rep[t].pre.txt)
                  /\ AverageIsMean(rec[rep[t].id].txt, rec[rep[t].id].txt)
                  /\ (pc[t] = "idle" /\ Last.op = "recompute") =>
                         Last.res = 0

C14_Witness ==
    \E t \in Threads :
        /\ Recomputed(t) /\ rep[t].out = "ok"
        /\ rep[t].pre.txt = TestLines
        /\ rec[rep[t].id].txt[5] = "AVERAGE_GRADE = 75.00\n"
        /\ pc[t] = "idle" /\ Last.op = "recompute" /\ Last.res = 0

\* an edit_student call on record id has reported success
EditSucceeded(id) ==
    \E k \in DOMAIN hist :
        hist[k].op = "edit" /\ hist[k].id = id /\ hist[k].res = 1

\* C15: once edit_student calls on a record created by add_student have
\* reported success and no call is in progress, the AVERAGE_GRADE line of
\* the record on disk is the two-decimal mean of its four SUBJECTn_GRADE
\* lines.
C15_AverageFollowsGrades ==
    \A id \in Ids :
        (Idle /\ EditSucceeded(id) /\ rec[id].ex) =>
            AverageIsMean(rec[id].txt, rec[id].txt)

\* the call that returned last is reset_system and no call is in progress
ResetReturned == Idle /\ hist /= <<>> /\ Last.op = "reset"

\* the counter is not left reset to 1 while student records still exist
C16_NoHalfReset ==
    (ResetReturned /\ counter = CounterFile("1\n")) =>
        \A i \in Ids : ~rec[i].ex

\* C16: whenever reset_system returns, the ID counter file holds 1 and the
\* student directory holds no student record file; in particular the
\* counter is never left reset to 1 while earlier student records exist.
C16_ResetComplete ==
    /\ ResetReturned =>
          (counter = CounterFile("1\n") /\ \A i \in Ids : ~rec[i].ex)
    /\ C16_NoHalfReset

FirstAverageLine(ls) ==
    CHOOSE i \in AverageLines(ls) : \A j \in AverageLines(ls) : i <= j

\* C17: a successful recompute_average_grade treats AVERAGE_GRADE as the
\* field edit treats its key: when the record has AVERAGE_GRADE lines, the
\* first is replaced in place and every other line is copied verbatim, the
\* line count unchanged; when it has none, one AVERAGE_GRADE line is
\* appended after the last line and the original lines are unchanged.
C17_AverageFieldUpdate ==
    \A t \in Threads :
        LET old == rep[t].pre.txt
            new == rec[rep[t].id].txt
        IN  (Recomputed(t) /\ rep[t].out = "ok") =>
                IF AverageLines(old) /= {}
                THEN /\ Len(new) = Len(old)
                     /\ \A i \in DOMAIN old :
                           IF i = FirstAverageLine(old)
                           THEN IsPrefix("AVERAGE_GRADE = ", new[i])
                           ELSE new[i] = old[i]
                ELSE /\ Len(new) = Len(old) + 1
                     /\ \A i \in DOMAIN old : new[i] = old[i]
                     /\ IsPrefix("AVERAGE_GRADE = ", new[Len(new)])

====
